---- MODULE Spec2Model ----
(***************************************************************************)
(* Competitive Intelligence analyzer: the landscape analysis               *)
(* (analyzeCompetitiveLandscape), the benchmark of one target against its  *)
(* competitors (benchmarkCreator) and the benchmark mode of the actor's    *)
(* entry script, which guards its input before it calls benchmarkCreator.  *)
(*                                                                         *)
(* Numbers.  The JavaScript code computes with IEEE doubles.  The model    *)
(* computes with exact integers in fixed point:                            *)
(*   - an input engagementRate is given in thousandths of a percent;       *)
(*   - metrics.engagementRate and both market shares, which the code       *)
(*     rounds to 2 decimals, are held in hundredths of a percent;          *)
(*   - videosPerMonth, rounded to 1 decimal, is held in tenths.            *)
(* Math.round(n / d) is floor(n/d + 1/2).  The input values below are      *)
(* chosen so that no intermediate double of the code falls on the other    *)
(* side of a rounding boundary or of a comparison than the exact value     *)
(* does (an engagement rate of 5.125 % would not do: the mean of 2.5 and   *)
(* 5.13 is 3.815 exactly and 3.8149999... in doubles).  TLC's integers are *)
(* 32 bits wide, so follower counts stay below 200000 (a share multiplies  *)
(* them by 10000).  The values Infinity and NaN, which a division by zero  *)
(* yields, are represented explicitly (see Num, PercentOf).                *)
(*                                                                         *)
(* Optional fields.  A numeric field of a profile is a sequence: <<>> when *)
(* the property is absent (undefined), <<n>> when it holds the number n.   *)
(***************************************************************************)
EXTENDS Integers, Sequences, FiniteSets, TLC

VARIABLES
    pc,           \* "idle": no call in progress; "done": a call has completed
    op,           \* the entry point of the completed call
    input,        \* the actor input of a benchmark-mode run (NoInput otherwise)
    creators,     \* the array given to analyzeCompetitiveLandscape
    target,       \* benchmarkCreator's first argument (Undefined when absent)
    competitors,  \* benchmarkCreator's second argument
    outcome,      \* how the call ended: a returned value or a thrown error
    console,      \* the data-quality warnings the call wrote with console.warn
    after         \* the caller's argument objects as the call left them

vars == <<pc, op, input, creators, target, competitors, outcome, console, after>>

-----------------------------------------------------------------------------
(* Bounds of the model *)

MaxCreators == 3       \* longest list given to analyzeCompetitiveLandscape
MaxCompetitors == 2    \* longest competitor list given to benchmarkCreator
MaxProfiles == 2       \* longest profile list of a benchmark-mode run

-----------------------------------------------------------------------------
(* JavaScript values *)

\* The value undefined / null in the place of an object.
Undefined == [undefined |-> TRUE]
\* The value null as written into a result.
Null == [null |-> TRUE]

\* A finite number, and the three non-finite doubles.
Num(n) == [kind |-> "finite", val |-> n]
PosInfinity == [kind |-> "Infinity"]
NegInfinity == [kind |-> "-Infinity"]
NaN == [kind |-> "NaN"]

\* x || d for an optional numeric field: undefined and 0 are falsy.
OrDefault(field, d) == IF field = <<>> \/ field[1] = 0 THEN d ELSE field[1]

\* typeof x === 'number' && x < 0
IsNegativeNumber(field) == field # <<>> /\ field[1] < 0

\* Math.round(n / d) for integers n and d # 0: the nearest integer, a half
\* rounding towards +Infinity.
Round(n, d) ==
    IF d > 0 THEN (2 * n + d) \div (2 * d)
             ELSE (2 * (-n) + (-d)) \div (2 * (-d))

\* n / d >= k for integers n, k and d # 0.
RatioAtLeast(n, d, k) == IF d > 0 THEN n >= k * d ELSE n <= k * d

\* String.prototype.toLowerCase over the alphabet of the model's usernames.
toLowerCase(s) ==
    CASE s = "A" -> "a"
      [] s = "B" -> "b"
      [] OTHER -> s

\* An array built element by element, as a sequence value: [i \in 1..n |-> e]
\* evaluated once.
Array(f) == f \o <<>>

\* The sum of a sequence of numbers (Array.prototype.reduce with +, from 0).
RECURSIVE SumSeq(_, _)
SumSeq(s, n) == IF n = 0 THEN 0 ELSE s[n] + SumSeq(s, n - 1)
Sum(s) == SumSeq(s, Len(s))

-----------------------------------------------------------------------------
(* Program constants *)

DefaultAccountAgeDays == 365
MinCreators == 2
DaysPerMonth == 30
DominanceThreshold == 5000      \* 50 %, in hundredths of a percent
GrowthThreshold == 100
MaxProjectionMonths == 24

-----------------------------------------------------------------------------
(* How a call ends *)

Return(v) == [kind |-> "return", value |-> v]
Throw(e, m) == [kind |-> "throw", error |-> e, message |-> m]

\* Reading a property of undefined or null.
TypeError == Throw("TypeError", "Cannot read properties of undefined")

-----------------------------------------------------------------------------
(* validateCreatorForAnalysis: the list of data-quality errors of a profile *)

validateCreatorForAnalysis(creator) ==
    IF creator = Undefined THEN <<"Creator is null/undefined">>
    ELSE (IF IsNegativeNumber(creator.followers)
            THEN <<"Followers cannot be negative">> ELSE <<>>)
      \o (IF IsNegativeNumber(creator.likes)
            THEN <<"Likes cannot be negative">> ELSE <<>>)
      \o (IF IsNegativeNumber(creator.videos)
            THEN <<"Video count cannot be negative">> ELSE <<>>)
      \o (IF IsNegativeNumber(creator.accountAgeDays)
            THEN <<"Account age cannot be negative">> ELSE <<>>)

-----------------------------------------------------------------------------
(* analyzeContentStrategy, getTier, getPercentileLabel *)

\* const accountAgeDays = creator.accountAgeDays || 365
AgeOf(creator) == OrDefault(creator.accountAgeDays, DefaultAccountAgeDays)

analyzeContentStrategy(creator) ==
    LET videos == OrDefault(creator.videos, 0)
        accountAgeDays == AgeOf(creator)
        likes == OrDefault(creator.likes, 0)
        \* videosPerMonth = (videos / accountAgeDays) * 30
        atLeast(k) == RatioAtLeast(videos * DaysPerMonth, accountAgeDays, k)
    IN  [ postingStrategy |->
              IF atLeast(60) THEN "high-volume"
              ELSE IF atLeast(20) THEN "consistent"
              ELSE IF atLeast(5) THEN "moderate"
              ELSE "quality-focused",
          videosPerMonth |-> Round(videos * DaysPerMonth * 10, accountAgeDays),
          avgLikesPerVideo |-> IF videos > 0 THEN Round(likes, videos) ELSE 0,
          \* the profiles of the model carry no bioLink, commerceUser or ttSeller
          hasExternalLinks |-> FALSE,
          isVerified |-> creator.verified,
          isCommerce |-> FALSE ]

getTier(followers) ==
    IF followers >= 1000000 THEN "mega"
    ELSE IF followers >= 500000 THEN "macro"
    ELSE IF followers >= 100000 THEN "mid-tier"
    ELSE IF followers >= 10000 THEN "micro"
    ELSE "nano"

getPercentileLabel(percentile) ==
    IF percentile >= 90 THEN "Top 10%"
    ELSE IF percentile >= 75 THEN "Top 25%"
    ELSE IF percentile >= 50 THEN "Above Average"
    ELSE IF percentile >= 25 THEN "Below Average"
    ELSE "Bottom 25%"

-----------------------------------------------------------------------------------------------------------------------------------------------------
(* Array.prototype.sort with a comparator: stable (ECMAScript 2019).  The   *)
(* element at position i comes before the one at j when the comparator is  *)
(* negative, or zero with i < j.                                           *)

\* Mutant: ascending.
byFollowersAsc(a, b) == a.metrics.followers - b.metrics.followers

\* The three comparators of the analyzer, all descending.
byFollowersDesc(a, b) == b.metrics.followers - a.metrics.followers
byEngagementDesc(a, b) == b.metrics.engagementRate - a.metrics.engagementRate
byGrowthDesc(a, b) == b.growth.followersPerMonth - a.growth.followersPerMonth

compare(by, a, b) ==
    CASE by = "followers" -> byFollowersDesc(a, b)
      [] by = "engagementRate" -> byEngagementDesc(a, b)
      [] by = "followersPerMonth" -> byGrowthDesc(a, b)

\* Mutant: of two equal elements the later one comes first.
BeforeTiesReversed(s, by, i, j) ==
    compare(by, s[i], s[j]) < 0 \/ (compare(by, s[i], s[j]) = 0 /\ i > j)

Before(s, by, i, j) ==
    compare(by, s[i], s[j]) < 0 \/ (compare(by, s[i], s[j]) = 0 /\ i < j)

sort(s, by) ==
    LET place(i) == 1 + Cardinality({j \in 1..Len(s) : j # i /\ Before(s, by, j, i)})
    IN  Array([k \in 1..Len(s) |-> s[CHOOSE i \in 1..Len(s) : place(i) = k]])

-----
(* generateInsights: the insights in the order the code pushes them *)

\* Mutant: the strategy check is made first.
generateInsightsStrategyFirst(competitorList, leader, challenger, fastestGrowing, highestEngagement) ==
    LET n == Len(competitorList)
        growthSum == Sum(Array([i \in 1..n |-> competitorList[i].growth.followersPerMonth]))
        strategies == {competitorList[i].contentStrategy.postingStrategy : i \in 1..n}
    IN  (IF Cardinality(strategies) = 1
           THEN <<[type |-> "strategy_uniformity", severity |-> "opportunity"]>> ELSE <<>>)
     \o (IF leader.marketShare.followers > DominanceThreshold
           THEN <<[type |-> "market_dominance", severity |-> "info"]>> ELSE <<>>)
     \o (IF challenger # Undefined
            /\ challenger.growth.followersPerMonth > leader.growth.followersPerMonth
           THEN <<[type |-> "challenger_rising", severity |-> "warning"]>> ELSE <<>>)
     \o (IF highestEngagement.username # leader.username
           THEN <<[type |-> "engagement_opportunity", severity |-> "opportunity"]>> ELSE <<>>)
     \o (IF fastestGrowing.growth.followersPerMonth * n > growthSum * 2
           THEN <<[type |-> "growth_outlier", severity |-> "info"]>> ELSE <<>>)

generateInsights(competitorList, leader, challenger, fastestGrowing, highestEngagement) ==
    LET n == Len(competitorList)
        \* avgGrowth = sum of followersPerMonth / n; the test is fastest > avgGrowth * 2
        growthSum == Sum(Array([i \in 1..n |-> competitorList[i].growth.followersPerMonth]))
        strategies == {competitorList[i].contentStrategy.postingStrategy : i \in 1..n}
    IN  (IF leader.marketShare.followers > DominanceThreshold
           THEN <<[type |-> "market_dominance", severity |-> "info"]>> ELSE <<>>)
     \o (IF challenger # Undefined
            /\ challenger.growth.followersPerMonth > leader.growth.followersPerMonth
           THEN <<[type |-> "challenger_rising", severity |-> "warning"]>> ELSE <<>>)
     \o (IF highestEngagement.username # leader.username
           THEN <<[type |-> "engagement_opportunity", severity |-> "opportunity"]>> ELSE <<>>)
     \o (IF fastestGrowing.growth.followersPerMonth * n > growthSum * 2
           THEN <<[type |-> "growth_outlier", severity |-> "info"]>> ELSE <<>>)
     \o (IF Cardinality(strategies) = 1
           THEN <<[type |-> "strategy_uniformity", severity |-> "opportunity"]>> ELSE <<>>)

-----------------------------------------------------------------------------
(* analyzeCompetitiveLandscape *)

\* The guard of the entry: fewer than 2 creators.
TooFewCreators(list) == Len(list) < MinCreators

\* c.followers || 0 and c.likes || 0, summed over the input.
TotalFollowers(list) == Sum(Array([i \in 1..Len(list) |-> OrDefault(list[i].followers, 0)]))
TotalLikes(list) == Sum(Array([i \in 1..Len(list) |-> OrDefault(list[i].likes, 0)]))

\* Mutant: the share rounded to a whole percent.
ShareInWholePercent(part, total) == IF total > 0 THEN Round(part * 100, total) * 100 ELSE 0

\* Mutant: a total that is not positive gives the full share.
ShareDefaultingToFull(part, total) == IF total > 0 THEN Round(part * 10000, total) ELSE 10000

\* A share of a total, in hundredths of a percent: 0 unless the total is positive.
Share(part, total) == IF total > 0 THEN Round(part * 10000, total) ELSE 0

\* Math.round(engagementRate * 100) / 100, from thousandths to hundredths.
RoundedEngagement(creator) == Round(OrDefault(creator.engagementRate, 0), 10)

\* The growth velocity of a profile.
Growth(creator) ==
    LET followers == OrDefault(creator.followers, 0)
        videos == OrDefault(creator.videos, 0)
        accountAgeDays == AgeOf(creator)
    IN  [ followersPerDay |-> Round(followers, accountAgeDays),
          followersPerMonth |-> Round(followers * DaysPerMonth, accountAgeDays),
          videosPerMonth |-> Round(videos * DaysPerMonth * 10, accountAgeDays) ]

\* The callback of creators.map: one analysis per profile, not yet ranked.
CompetitorAnalysis(creator, totalFollowers, totalLikes) ==
    LET followers == OrDefault(creator.followers, 0)
        likes == OrDefault(creator.likes, 0)
        videos == OrDefault(creator.videos, 0)
    IN  [ username |-> creator.username,
          verified |-> creator.verified,
          metrics |-> [ followers |-> followers,
                        likes |-> likes,
                        videos |-> videos,
                        engagementRate |-> RoundedEngagement(creator),
                        accountAgeDays |-> AgeOf(creator) ],
          marketShare |-> [ followers |-> Share(followers, totalFollowers),
                            likes |-> Share(likes, totalLikes) ],
          growth |-> Growth(creator),
          contentStrategy |-> analyzeContentStrategy(creator),
          tier |-> getTier(followers) ]

\* competitorAnalysis.sort(by followers) followed by c.rank = i + 1.
Ranked(analyses) ==
    LET sorted == sort(analyses, "followers")
    IN  Array([i \in 1..Len(sorted) |-> sorted[i] @@ [rank |-> i]])

\* The result object of a landscape of at least 2 profiles.
LandscapeResult(list) ==
    LET n == Len(list)
        totalFollowers == TotalFollowers(list)
        totalLikes == TotalLikes(list)
        competitorAnalysis ==
            Ranked(Array([i \in 1..n |-> CompetitorAnalysis(list[i], totalFollowers, totalLikes)]))
        leader == competitorAnalysis[1]
        challenger == competitorAnalysis[2]
        sortedByGrowth == sort(competitorAnalysis, "followersPerMonth")
        sortedByEngagement == sort(competitorAnalysis, "engagementRate")
        fastestGrowing == sortedByGrowth[1]
        highestEngagement == sortedByEngagement[1]
        engagementSum == Sum(Array([i \in 1..n |-> competitorAnalysis[i].metrics.engagementRate]))
    IN  [ summary |->
              [ totalCreators |-> n,
                totalFollowers |-> totalFollowers,
                totalLikes |-> totalLikes,
                avgFollowers |-> Round(totalFollowers, n),
                avgEngagement |-> Round(engagementSum, n) ],
          rankings |->
              [ byFollowers |->
                    Array([i \in 1..n |->
                              [ username |-> competitorAnalysis[i].username,
                                followers |-> competitorAnalysis[i].metrics.followers,
                                rank |-> competitorAnalysis[i].rank ]]),
                byEngagement |->
                    Array([i \in 1..n |->
                              [ username |-> sortedByEngagement[i].username,
                                engagementRate |-> sortedByEngagement[i].metrics.engagementRate,
                                rank |-> i ]]),
                byGrowth |->
                    Array([i \in 1..n |->
                              [ username |-> sortedByGrowth[i].username,
                                growthPerMonth |-> sortedByGrowth[i].growth.followersPerMonth,
                                rank |-> i ]]) ],
          highlights |->
              [ marketLeader |-> [ username |-> leader.username,
                                   followers |-> leader.metrics.followers,
                                   marketShare |-> leader.marketShare.followers ],
                challenger |-> [ username |-> challenger.username,
                                 followers |-> challenger.metrics.followers,
                                 gap |-> leader.metrics.followers - challenger.metrics.followers ],
                fastestGrowing |-> [ username |-> fastestGrowing.username,
                                     growthPerMonth |-> fastestGrowing.growth.followersPerMonth ],
                highestEngagement |-> [ username |-> highestEngagement.username,
                                        engagementRate |-> highestEngagement.metrics.engagementRate ] ],
          competitors |-> competitorAnalysis,
          insights |-> generateInsights(competitorAnalysis, leader, challenger,
                                        fastestGrowing, highestEngagement) ]

\* Mutant: the error object also carries empty result fields.
LandscapeErrorWithEmptyFields ==
    [ error |-> "Need at least 2 creators for competitive analysis",
      competitors |-> <<>>, insights |-> <<>> ]

\* The error object of a landscape of fewer than 2 profiles.
LandscapeError == [error |-> "Need at least 2 creators for competitive analysis"]

\* Mutant: a profile with validation errors is rejected.
analyzeRejectingInvalidData(list) ==
    IF TooFewCreators(list) THEN Return(LandscapeError)
    ELSE IF \E i \in 1..Len(list) : list[i] = Undefined THEN TypeError
    ELSE IF \E i \in 1..Len(list) : validateCreatorForAnalysis(list[i]) # <<>>
      THEN Return([error |-> "Invalid creator data"])
    ELSE Return(LandscapeResult(list))

\* The call: the error object for fewer than 2 creators; a TypeError when an
\* element is undefined or null (c.followers in the first reduce); the result.
analyzeCompetitiveLandscape(list) ==
    IF TooFewCreators(list) THEN Return(LandscapeError)
    ELSE IF \E i \in 1..Len(list) : list[i] = Undefined THEN TypeError
    ELSE Return(LandscapeResult(list))

\* Mutant: the rank is written into the profile itself.
ProfileWithRank(creator) == creator @@ [rank |-> 1]

\* An input profile after the map callback has run on it: the callback reads
\* creator and returns a new object, and it is that object which the sort moves
\* and which receives rank.
ProfileAfterAnalysis(creator) == creator

\* The argument array after the call: creators.reduce and creators.map leave
\* it as it is; the sort and the forEach work on the array map returned.
\* Nothing is reached when the call returns the error object or throws.
ArgumentAfterAnalysis(list) ==
    IF TooFewCreators(list) \/ \E i \in 1..Len(list) : list[i] = Undefined THEN list
    ELSE Array([i \in 1..Len(list) |-> ProfileAfterAnalysis(list[i])])

\* The console.warn calls of the map callback, in input order: one for each
\* profile with validation errors.  None is reached when the call returns the
\* error object or throws in the first reduce.
ConsoleWarnings(list) ==
    IF TooFewCreators(list) \/ \E i \in 1..Len(list) : list[i] = Undefined THEN <<>>
    ELSE SelectSeq(Array([i \in 1..Len(list) |->
                            [ username |-> list[i].username,
                              errors |-> validateCreatorForAnalysis(list[i]) ]]),
                   LAMBDA w : w.errors # <<>>)

-----------------------------------------------------------------------------
(* generateBenchmarkRecommendations *)

\* Mutant: a growth difference of exactly the threshold counts as overtaking.
GrowthRecommendationFromThreshold(targetAnalysis, leader) ==
    LET followerGap == leader.metrics.followers - targetAnalysis.metrics.followers
        growthDifference ==
            targetAnalysis.growth.followersPerMonth - leader.growth.followersPerMonth
    IN  IF growthDifference >= GrowthThreshold
        THEN LET monthsToLeader == Round(followerGap, growthDifference)
                 capped == IF monthsToLeader < MaxProjectionMonths
                             THEN monthsToLeader ELSE MaxProjectionMonths
             IN  [ category |-> "Growth", priority |-> "low",
                   action |-> "on track to overtake leader",
                   monthsToLeader |-> capped,
                   disclaimer |-> "Assumes linear growth" ]
        ELSE [ category |-> "Growth", priority |-> "high",
               action |-> "increase growth rate",
               followerGap |-> followerGap,
               disclaimer |-> "Growth projections assume linear extrapolation" ]

\* Mutant: the projection is not capped.
GrowthRecommendationUncapped(targetAnalysis, leader) ==
    LET followerGap == leader.metrics.followers - targetAnalysis.metrics.followers
        growthDifference ==
            targetAnalysis.growth.followersPerMonth - leader.growth.followersPerMonth
    IN  IF growthDifference > GrowthThreshold
        THEN [ category |-> "Growth", priority |-> "low",
               action |-> "on track to overtake leader",
               monthsToLeader |-> Round(followerGap, growthDifference),
               disclaimer |-> "Assumes linear growth" ]
        ELSE [ category |-> "Growth", priority |-> "high",
               action |-> "increase growth rate",
               followerGap |-> followerGap,
               disclaimer |-> "Growth projections assume linear extrapolation" ]

\* The Growth rule, applied when the target is not the leader.
GrowthRecommendation(targetAnalysis, leader) ==
    LET followerGap == leader.metrics.followers - targetAnalysis.metrics.followers
        growthDifference ==
            targetAnalysis.growth.followersPerMonth - leader.growth.followersPerMonth
    IN  IF growthDifference > GrowthThreshold
        THEN LET monthsToLeader == Round(followerGap, growthDifference)
                 capped == IF monthsToLeader < MaxProjectionMonths
                             THEN monthsToLeader ELSE MaxProjectionMonths
             IN  [ category |-> "Growth", priority |-> "low",
                   action |-> "on track to overtake leader",
                   monthsToLeader |-> capped,
                   disclaimer |-> "Assumes linear growth" ]
        ELSE [ category |-> "Growth", priority |-> "high",
               action |-> "increase growth rate",
               followerGap |-> followerGap,
               disclaimer |-> "Growth projections assume linear extrapolation" ]

generateBenchmarkRecommendations(targetAnalysis, competitorAnalyses, leader) ==
    LET n == Len(competitorAnalyses)
        \* the two averages are sum / n: NaN when n = 0, and a comparison with
        \* NaN is false
        engagementSum == Sum(Array([i \in 1..n |-> competitorAnalyses[i].metrics.engagementRate]))
        postingSum == Sum(Array([i \in 1..n |-> competitorAnalyses[i].growth.videosPerMonth]))
    IN  (IF n > 0 /\ targetAnalysis.metrics.engagementRate * n < engagementSum
           THEN <<[ category |-> "Engagement", priority |-> "high",
                    action |-> "improve engagement rate" ]>>
           ELSE <<[ category |-> "Engagement", priority |-> "low",
                    action |-> "maintain strong engagement rate" ]>>)
     \o (IF n > 0 /\ targetAnalysis.growth.videosPerMonth * n * 10 < postingSum * 7
           THEN <<[ category |-> "Content Volume", priority |-> "medium",
                    action |-> "increase posting frequency" ]>>
           ELSE <<>>)
     \o (IF targetAnalysis.username # leader.username
           THEN <<GrowthRecommendation(targetAnalysis, leader)>>
           ELSE <<>>)
     \o (IF ~targetAnalysis.verified
            /\ \E i \in 1..n : competitorAnalyses[i].verified
           THEN <<[ category |-> "Credibility", priority |-> "medium",
                    action |-> "pursue platform verification" ]>>
           ELSE <<>>)

-----------------------------------------------------------------------------
(* benchmarkCreator *)

\* c.username === target.username
SameUsername(c, t) == c.username = t.username

\* findIndex(c => c.username === target.username) + 1: the 1-based position of
\* the first match, 0 when no element matches.
IndexOfTarget(s, t) ==
    IF \E i \in 1..Len(s) : SameUsername(s[i], t)
      THEN CHOOSE i \in 1..Len(s) :
               SameUsername(s[i], t) /\ \A j \in 1..(i - 1) : ~SameUsername(s[j], t)
      ELSE 0

\* Mutant: Math.round((1 - rank / total) * 100).
PercentileOffByOne(rank, total) == Round((total - rank) * 100, total)

\* Math.round((1 - (rank - 1) / total) * 100)
Percentile(rank, total) == Round((total - rank + 1) * 100, total)

\* Math.round((n / d) * 100) as a double: a division by zero gives Infinity,
\* -Infinity or NaN, which Math.round returns unchanged.
PercentOf(n, d) ==
    IF d # 0 THEN Num(Round(n * 100, d))
    ELSE IF n > 0 THEN PosInfinity
    ELSE IF n < 0 THEN NegInfinity
    ELSE NaN

\* The gap object computed for a target that is not the leader.
GapToLeader(targetAnalysis, leader) ==
    LET gap == leader.metrics.followers - targetAnalysis.metrics.followers
    IN  [ followers |-> gap,
          percentage |-> PercentOf(gap, leader.metrics.followers),
          disclaimer |-> "Gap based on current follower count" ]

\* Mutant: the comparison inverted.
IsLeaderInverted(leader, t) == leader.username # t.username

\* leader.username === target.username
IsLeader(leader, t) == leader.username = t.username

\* The benchmark result, given the landscape result of [target, ...competitors].
BenchmarkResult(t, comps, landscape) ==
    LET total == 1 + Len(comps)
        all == landscape.competitors
        targetIdx == IndexOfTarget(all, t)
        targetAnalysis == all[targetIdx]
        competitorAnalyses == SelectSeq(all, LAMBDA c : ~SameUsername(c, t))
        followerRank == targetAnalysis.rank
        engagementRank ==
            IndexOfTarget(sort(all, "engagementRate"), t)
        growthRank ==
            IndexOfTarget(sort(all, "followersPerMonth"), t)
        leader == all[1]
        bench(rank) == [ rank |-> rank,
                         percentile |-> Percentile(rank, total),
                         total |-> total,
                         label |-> getPercentileLabel(Percentile(rank, total)) ]
    IN  [ target |-> targetAnalysis,
          benchmarks |-> [ followers |-> bench(followerRank),
                           engagement |-> bench(engagementRank),
                           growth |-> bench(growthRank) ],
          gapToLeader |-> IF IsLeader(leader, t) THEN Null
                          ELSE GapToLeader(targetAnalysis, leader),
          isLeader |-> IsLeader(leader, t),
          competitorCount |-> Len(comps),
          landscape |-> landscape.summary,
          recommendations |->
              generateBenchmarkRecommendations(targetAnalysis, competitorAnalyses, leader) ]

\* Mutant: the landscape's error object is handed back to the caller.
benchmarkCreatorReturningError(t, comps) ==
    LET landscape == analyzeCompetitiveLandscape(<<t>> \o comps)
    IN  IF landscape.kind = "throw" THEN landscape
        ELSE IF "competitors" \notin DOMAIN landscape.value THEN landscape
        ELSE Return(BenchmarkResult(t, comps, landscape.value))

\* The call.  An exception of the landscape analysis propagates.  The error
\* object has no competitors property, so landscape.competitors.find throws.
benchmarkCreator(t, comps) ==
    LET landscape == analyzeCompetitiveLandscape(<<t>> \o comps)
    IN  IF landscape.kind = "throw" THEN landscape
        ELSE IF "competitors" \notin DOMAIN landscape.value THEN TypeError
        \* find returns undefined, and targetAnalysis.rank throws
        ELSE IF \A i \in 1..Len(landscape.value.competitors) :
                    ~SameUsername(landscape.value.competitors[i], t) THEN TypeError
        ELSE Return(BenchmarkResult(t, comps, landscape.value))

-----------------------------------------------------------------------------
(* Benchmark mode of the entry script *)

\* p.username?.toLowerCase() === targetUsername.toLowerCase()
MatchesTarget(p, targetUsername) == toLowerCase(p.username) = toLowerCase(targetUsername)

\* The profile and the competitor list the script passes to benchmarkCreator.
TargetProfile(allProfiles, targetUsername) ==
    IF \E i \in 1..Len(allProfiles) : MatchesTarget(allProfiles[i], targetUsername)
      THEN allProfiles[CHOOSE i \in 1..Len(allProfiles) :
               /\ MatchesTarget(allProfiles[i], targetUsername)
               /\ \A j \in 1..(i - 1) : ~MatchesTarget(allProfiles[j], targetUsername)]
      ELSE Undefined

CompetitorProfiles(allProfiles, targetUsername) ==
    SelectSeq(allProfiles, LAMBDA p : ~MatchesTarget(p, targetUsername))

\* The guards of the script, in order; "" when all of them pass.  in is
\* [targetUsername, competitorUsernames, profiles], profiles being the list the
\* fetch returned or the input supplied.
MainGuard(in) ==
    IF in.targetUsername = <<>>
      THEN "Benchmark mode requires targetUsername"
    ELSE IF Len(in.competitorUsernames) = 0
      THEN "Benchmark mode requires at least one competitor"
    ELSE IF TargetProfile(in.profiles, in.targetUsername[1]) = Undefined
      THEN "Could not find target profile"
    ELSE IF Len(CompetitorProfiles(in.profiles, in.targetUsername[1])) = 0
      THEN "No competitor profiles found"
    ELSE ""

-----------------------------------------------------------------------------
(* The inputs of the model *)

Usernames == {"a", "A", "b"}

\* A profile with the optional fields absent.
Profile(u, f) ==
    [ username |-> u, verified |-> FALSE, followers |-> f, likes |-> <<>>,
      videos |-> <<>>, engagementRate |-> <<>>, accountAgeDays |-> <<>> ]

\* Profiles whose usernames differ, two of them in letter case only.
NamedProfiles ==
    { Profile(u, f) : u \in Usernames, f \in {<<1>>, <<3>>} }

\* Profiles that differ in followers: absent, negative, small.
FollowerProfiles ==
    { Profile(u, f) : u \in {"a", "b"}, f \in {<<>>, <<-2>>, <<1>>, <<3>>} }

\* Profiles that differ in account age: absent, zero, negative, one month.
AgeProfiles ==
    { [Profile(u, <<3000>>) EXCEPT !.accountAgeDays = a] :
          u \in {"a", "b"}, a \in {<<>>, <<0>>, <<-30>>, <<30>>} }

\* Profiles that differ in engagement rate: absent, 3 %, 5.875 % (which the
\* analysis rounds to 5.88 %).
EngagementProfiles ==
    { [Profile(u, <<3000>>) EXCEPT !.engagementRate = e] :
          u \in {"a", "b"}, e \in {<<>>, <<3000>>, <<5875>>} }

\* Profiles that differ in followers and account age, hence in growth: per
\* month 493, 593, 600, 3000 and 600 followers.
GrowthProfiles ==
    { [Profile(u, <<fa[1]>>) EXCEPT !.accountAgeDays = <<fa[2]>>] :
          u \in {"a", "b"},
          fa \in {<<60000, 3650>>, <<593, 30>>, <<3000, 150>>, <<3000, 30>>, <<6000, 300>>} }

\* Profiles that differ in followers, verification and video count (absent,
\* or 365 videos in the default 365 days: 30 a month).
StrategyProfiles ==
    { [Profile(u, <<x[1]>>) EXCEPT !.verified = x[2], !.videos = x[3]] :
          u \in {"a", "b"},
          x \in {<<3000, FALSE, <<>>>>, <<3000, TRUE, <<365>>>>,
                 <<6000, TRUE, <<>>>>, <<6000, FALSE, <<365>>>>} }

\* Profiles that differ in likes and videos: absent, negative, positive.
LikesProfiles ==
    { [Profile(u, <<3000>>) EXCEPT !.likes = x[1], !.videos = x[2]] :
          u \in {"a", "b"},
          x \in {<<<<>>, <<>>>>, <<<<-2>>, <<-3>>>>, <<<<2>>, <<>>>>, <<<<4>>, <<5>>>>} }

\* Profiles whose followers lie just around one half of a total of 100000.
DominanceProfiles ==
    { Profile(u, f) : u \in {"a", "b"}, f \in {<<50001>>, <<49999>>, <<50000>>} }

Pools ==
    { NamedProfiles, FollowerProfiles, AgeProfiles, EngagementProfiles,
      GrowthProfiles, StrategyProfiles, LikesProfiles, DominanceProfiles }

\* The sequences over S of length at most n.
SeqUpTo(S, n) == UNION {[1..k -> S] : k \in 0..n}

NoInput == [none |-> TRUE]

\* The argument objects of a call, as the caller sees them.
Arguments(list, t, comps) == [creators |-> list, target |-> t, competitors |-> comps]

\* benchmarkCreator's arguments after the call: allCreators is a new array of
\* the same profile objects, given to analyzeCompetitiveLandscape.
ArgumentsAfterBenchmark(t, comps) ==
    LET allCreators == ArgumentAfterAnalysis(<<t>> \o comps)
    IN  Arguments(<<>>, allCreators[1], SubSeq(allCreators, 2, Len(allCreators)))

-----------------------------------------------------------------------------
(* The state machine: one call at a time, nothing kept between calls *)

Init ==
    /\ pc = "idle"
    /\ op = "none"
    /\ input = NoInput
    /\ creators = <<>>
    /\ target = Undefined
    /\ competitors = <<>>
    /\ outcome = Null
    /\ console = <<>>
    /\ after = Arguments(<<>>, Undefined, <<>>)

\* analyzeCompetitiveLandscape(list), an element possibly undefined
CallAnalyze ==
    /\ pc = "idle"
    /\ \E pool \in Pools : \E list \in SeqUpTo(pool \cup {Undefined}, MaxCreators) :
          /\ creators' = list
          /\ outcome' = analyzeCompetitiveLandscape(list)
          /\ console' = ConsoleWarnings(list)
          /\ after' = Arguments(ArgumentAfterAnalysis(list), Undefined, <<>>)
    /\ pc' = "done"
    /\ op' = "analyzeCompetitiveLandscape"
    /\ UNCHANGED <<input, target, competitors>>

\* benchmarkCreator(t, comps), the target possibly absent
CallBenchmark ==
    /\ pc = "idle"
    /\ \E pool \in Pools : \E t \in pool \cup {Undefined} :
       \E comps \in SeqUpTo(pool, MaxCompetitors) :
          /\ target' = t
          /\ competitors' = comps
          /\ outcome' = benchmarkCreator(t, comps)
          /\ console' = ConsoleWarnings(<<t>> \o comps)
          /\ after' = ArgumentsAfterBenchmark(t, comps)
    /\ pc' = "done"
    /\ op' = "benchmarkCreator"
    /\ UNCHANGED <<input, creators>>

\* A benchmark-mode run of the script: the guards, then benchmarkCreator.
RunBenchmarkMode ==
    /\ pc = "idle"
    /\ \E tu \in {<<>>} \cup {<<u>> : u \in Usernames} :
       \E cu \in SeqUpTo({"b"}, 1) :
       \E ps \in SeqUpTo(NamedProfiles, MaxProfiles) :
          LET in == [targetUsername |-> tu, competitorUsernames |-> cu, profiles |-> ps]
          IN  /\ input' = in
              /\ IF MainGuard(in) # ""
                   THEN /\ outcome' = Throw("Error", MainGuard(in))
                        /\ UNCHANGED <<target, competitors, console, after>>
                   ELSE /\ target' = TargetProfile(ps, tu[1])
                        /\ competitors' = CompetitorProfiles(ps, tu[1])
                        /\ outcome' = benchmarkCreator(TargetProfile(ps, tu[1]),
                                                       CompetitorProfiles(ps, tu[1]))
                        /\ console' = ConsoleWarnings(<<TargetProfile(ps, tu[1])>>
                                                        \o CompetitorProfiles(ps, tu[1]))
                        /\ after' = ArgumentsAfterBenchmark(TargetProfile(ps, tu[1]),
                                                            CompetitorProfiles(ps, tu[1]))
    /\ pc' = "done"
    /\ op' = "main"
    /\ UNCHANGED creators

\* The caller takes the outcome; nothing of the call remains.
Finish ==
    /\ pc = "done"
    /\ pc' = "idle"
    /\ op' = "none"
    /\ input' = NoInput
    /\ creators' = <<>>
    /\ target' = Undefined
    /\ competitors' = <<>>
    /\ outcome' = Null
    /\ console' = <<>>
    /\ after' = Arguments(<<>>, Undefined, <<>>)

Next == CallAnalyze \/ CallBenchmark \/ RunBenchmarkMode \/ Finish

Spec == Init /\ [][Next]_vars

-----------------------------------------------------------------------------
(* Vocabulary of the properties *)

\* A landscape call has returned a full result.
LandscapeReturned ==
    /\ pc = "done"
    /\ op = "analyzeCompetitiveLandscape"
    /\ outcome.kind = "return"
    /\ "competitors" \in DOMAIN outcome.value

\* A benchmark call, direct or through the script, has been made.
BenchmarkCalled ==
    /\ pc = "done"
    /\ \/ op = "benchmarkCreator"
       \/ op = "main" /\ MainGuard(input) = ""

\* ... and has returned a result.
BenchmarkReturned == BenchmarkCalled /\ outcome.kind = "return"

\* The followers the analysis reads from a profile.
FollowersOf(p) == OrDefault(p.followers, 0)

\* The permutations of 1..n.
Orderings(n) == {p \in [1..n -> 1..n] : \A i, j \in 1..n : p[i] = p[j] => i = j}

\* The analysis c describes the input profile p.
Describes(c, p) ==
    /\ c.username = p.username
    /\ c.metrics.followers = FollowersOf(p)
    /\ c.metrics.engagementRate = Round(OrDefault(p.engagementRate, 0), 10)
    /\ p.accountAgeDays # <<>> /\ p.accountAgeDays[1] # 0
          => c.metrics.accountAgeDays = p.accountAgeDays[1]

\* The highest follower count among the target and the competitors.
LeaderFollowers ==
    LET all == <<target>> \o competitors
    IN  CHOOSE m \in {FollowersOf(all[i]) : i \in 1..Len(all)} :
            \A i \in 1..Len(all) : FollowersOf(all[i]) <= m

\* The username of the rank-1 creator: the first in [target, ...competitors]
\* among those with the highest follower count.
LeaderUsername ==
    LET all == <<target>> \o competitors
        first == CHOOSE i \in 1..Len(all) :
                    /\ FollowersOf(all[i]) = LeaderFollowers
                    /\ \A j \in 1..(i - 1) : FollowersOf(all[j]) # LeaderFollowers
    IN  all[first].username

-----------------------------------------------------------------------------
(* C1: analyzeCompetitiveLandscape called with 0 or 1 profiles returns       *)
(* normally an object whose only field is error: no summary, rankings,     *)
(* highlights, competitors or insights.                                    *)

C1_ErrorObjectOnly ==
    (pc = "done" /\ op = "analyzeCompetitiveLandscape" /\ Len(creators) < 2)
        => /\ outcome.kind = "return"
           /\ DOMAIN outcome.value = {"error"}

C1_Witness ==
    /\ pc = "done" /\ op = "analyzeCompetitiveLandscape"
    /\ Len(creators) = 1
    /\ outcome = Return([error |-> "Need at least 2 creators for competitive analysis"])

(* C2: benchmarkCreator fails, and returns no result, whenever the target   *)
(* is absent or the competitor list is empty: it does not proceed on the   *)
(* landscape's error object; the benchmark mode of the script throws when  *)
(* one of its guards fails.                                                *)

C2_InvalidInputFails ==
    /\ (pc = "done" /\ op = "benchmarkCreator"
            /\ (target = Undefined \/ Len(competitors) = 0))
          => outcome.kind = "throw"
    /\ (pc = "done" /\ op = "main"
            /\ (input.targetUsername = <<>> \/ Len(input.competitorUsernames) = 0))
          => outcome.kind = "throw"

C2_Witness ==
    /\ pc = "done" /\ op = "benchmarkCreator"
    /\ target # Undefined
    /\ Len(competitors) = 0
    /\ outcome.kind = "throw"

(* C3: for N >= 2 profiles the ranks of the returned competitors are        *)
(* exactly 1..N, a competitor has at least the followers of the one ranked *)
(* next, and profiles with equal followers keep their input order.         *)

C3_RankIsStableDescendingOrder ==
    LandscapeReturned =>
        LET cs == outcome.value.competitors
            n == Len(creators)
        IN  /\ Len(cs) = n
            /\ {cs[i].rank : i \in 1..n} = 1..n
            /\ \A i, j \in 1..n :
                  cs[i].rank + 1 = cs[j].rank
                      => cs[i].metrics.followers >= cs[j].metrics.followers
            /\ \E p \in Orderings(n) :
                  /\ \A k \in 1..n : Describes(cs[k], creators[p[k]])
                  /\ \A k, l \in 1..n :
                        (cs[k].metrics.followers = cs[l].metrics.followers /\ p[k] < p[l])
                            => cs[k].rank < cs[l].rank

C3_Witness ==
    /\ LandscapeReturned
    /\ Len(creators) = 3
    /\ FollowersOf(creators[1]) = FollowersOf(creators[2])
    /\ FollowersOf(creators[3]) > FollowersOf(creators[1])
    /\ creators[1].username # creators[2].username
    /\ outcome.value.competitors[2].username = creators[1].username
    /\ outcome.value.competitors[3].username = creators[2].username

(* C4: gapToLeader is null if and only if the target's username equals the  *)
(* leader's username compared without regard to letter case; when the      *)
(* rank-1 creator is a competitor whose username differs from the target's *)
(* in letter case only, gapToLeader is null and isLeader is true.          *)

C4_GapNullIffSameNameIgnoringCase ==
    BenchmarkReturned =>
        LET sameName == toLowerCase(target.username) = toLowerCase(LeaderUsername)
        IN  /\ (outcome.value.gapToLeader = Null) <=> sameName
            /\ sameName => outcome.value.isLeader

(* C5: each of the three percentiles of a benchmark lies in 0..100; rank 1  *)
(* of N has percentile 100 and rank N of N has percentile round(100/N).    *)

C5_PercentileRange ==
    BenchmarkReturned =>
        LET n == 1 + Len(competitors)
            b == outcome.value.benchmarks
        IN  \A d \in {b.followers, b.engagement, b.growth} :
                /\ d.percentile \in 0..100
                /\ d.rank = 1 => d.percentile = 100
                /\ d.rank = n => d.percentile = (200 + n) \div (2 * n)

C5_Witness ==
    /\ BenchmarkReturned
    /\ Len(competitors) = 2
    /\ outcome.value.benchmarks.followers.rank = 1
    /\ outcome.value.benchmarks.followers.percentile = 100
    /\ outcome.value.benchmarks.growth.rank = 3
    /\ outcome.value.benchmarks.growth.percentile = 33

(* C6: for N >= 2 profiles with non-negative followers and a positive       *)
(* total, each marketShare.followers is the exact share rounded to 2       *)
(* decimals, and the shares sum to 100 within 0.005 * N (shares are held   *)
(* in hundredths of a percent: 100 % is 10000, the tolerance is N / 2).    *)

C6_FollowerSharesSumTo100 ==
    (/\ LandscapeReturned
     /\ \A i \in 1..Len(creators) : FollowersOf(creators[i]) >= 0
     /\ outcome.value.summary.totalFollowers > 0)
        => LET cs == outcome.value.competitors
               n == Len(cs)
               total == outcome.value.summary.totalFollowers
               shares == Sum(Array([i \in 1..n |-> cs[i].marketShare.followers]))
               abs(x) == IF x < 0 THEN -x ELSE x
           IN  /\ \A i \in 1..n :
                     2 * abs(cs[i].marketShare.followers * total
                               - 10000 * cs[i].metrics.followers) <= total
               /\ 2 * abs(shares - 10000) <= n

C6_Witness ==
    /\ LandscapeReturned
    /\ Len(creators) = 3
    /\ \A i \in 1..3 : FollowersOf(creators[i]) = 1
    /\ \A i \in 1..3 : outcome.value.competitors[i].marketShare.followers = 3333

(* C8: when the target's followers are strictly greater than every          *)
(* competitor's, gapToLeader is null, isLeader is true and no              *)
(* recommendation has the category Growth.                                 *)

TargetLeadsAlone ==
    /\ target # Undefined
    /\ \A i \in 1..Len(competitors) : FollowersOf(target) > FollowersOf(competitors[i])

C8_SoleLeaderHasNoGap ==
    (BenchmarkReturned /\ TargetLeadsAlone)
        => LET recs == outcome.value.recommendations
           IN  /\ outcome.value.gapToLeader = Null
               /\ outcome.value.isLeader
               /\ \A i \in 1..Len(recs) : recs[i].category # "Growth"

C8_Witness ==
    /\ BenchmarkReturned /\ TargetLeadsAlone
    /\ Len(competitors) = 2
    /\ competitors[1].username # target.username
    /\ outcome.value.isLeader
    /\ Len(outcome.value.recommendations) = 1

(* C9: a profile whose accountAgeDays is absent, zero or negative is        *)
(* analysed with an age of 365 days: metrics.accountAgeDays = 365,         *)
(* followersPerDay = round(followers / 365), followersPerMonth =           *)
(* round(followers / 365 * 30); no growth value has a divisor <= 0.        *)

C9_NonPositiveAgeDefaultsTo365 ==
    LandscapeReturned =>
        LET cs == outcome.value.competitors
            n == Len(cs)
        IN  /\ \A k \in 1..n : cs[k].metrics.accountAgeDays > 0
            /\ \E p \in Orderings(n) : \A k \in 1..n :
                  LET c == cs[k]
                      in == creators[p[k]]
                  IN  /\ c.username = in.username
                      /\ c.metrics.followers = FollowersOf(in)
                      /\ (in.accountAgeDays = <<>> \/ in.accountAgeDays[1] <= 0)
                            => /\ c.metrics.accountAgeDays = 365
                               /\ c.growth.followersPerDay = Round(FollowersOf(in), 365)
                               /\ c.growth.followersPerMonth = Round(FollowersOf(in) * 30, 365)

(* C10: when the target is not the leader, gapToLeader.followers is the     *)
(* leader's followers minus the target's, and gapToLeader.percentage is    *)
(* round(gap / leader.followers * 100), or 0 when leader.followers = 0: a  *)
(* finite number for every input.                                          *)

C10_GapPercentageFinite ==
    (BenchmarkReturned /\ ~outcome.value.isLeader)
        => LET g == outcome.value.gapToLeader
               gap == LeaderFollowers - outcome.value.target.metrics.followers
           IN  /\ g # Null
               /\ g.followers = gap
               /\ g.percentage = IF LeaderFollowers = 0 THEN Num(0)
                                 ELSE Num(Round(gap * 100, LeaderFollowers))

(* C11: for N >= 2 profiles whose followers sum to 0 every competitor has   *)
(* marketShare.followers = 0, and every competitor has marketShare.likes = *)
(* 0 when the likes sum to 0; every share is a finite number.              *)

C11_ZeroTotalGivesZeroShare ==
    LandscapeReturned =>
        LET cs == outcome.value.competitors
            n == Len(cs)
            followersSum == Sum(Array([i \in 1..n |-> FollowersOf(creators[i])]))
            likesSum == Sum(Array([i \in 1..n |-> OrDefault(creators[i].likes, 0)]))
        IN  /\ followersSum = 0 => \A k \in 1..n : cs[k].marketShare.followers = 0
            /\ likesSum = 0 => \A k \in 1..n : cs[k].marketShare.likes = 0
            /\ \A k \in 1..n : /\ cs[k].marketShare.followers \in Int
                                /\ cs[k].marketShare.likes \in Int

\* Likes -2 and 2: the total is 0 and no part is; the followers are 3000 each.
C11_Witness ==
    /\ LandscapeReturned
    /\ Len(creators) = 2
    /\ \A i \in 1..2 : OrDefault(creators[i].likes, 0) # 0
    /\ outcome.value.summary.totalLikes = 0
    /\ \A k \in 1..2 : /\ outcome.value.competitors[k].marketShare.likes = 0
                        /\ outcome.value.competitors[k].marketShare.followers = 5000

(* C12: for N >= 2 profiles, some with a negative followers, likes or       *)
(* videos count or without optional fields, analyzeCompetitiveLandscape    *)
(* returns a full result (no error field, no exception) with one           *)
(* competitor per input profile; the metrics of a profile carry its        *)
(* literal values, negative ones included, and 0 (365 for the account age) *)
(* for an absent field; each profile with a negative count is warned       *)
(* about on the console.                                                   *)

HasNegativeCount(p) ==
    IsNegativeNumber(p.followers) \/ IsNegativeNumber(p.likes) \/ IsNegativeNumber(p.videos)

Literal(field, default) == IF field = <<>> THEN default ELSE field[1]

C12_DataQualityNeverBlocks ==
    (/\ pc = "done" /\ op = "analyzeCompetitiveLandscape"
     /\ Len(creators) >= 2
     /\ \A i \in 1..Len(creators) : creators[i] # Undefined)
        => /\ outcome.kind = "return"
           /\ "error" \notin DOMAIN outcome.value
           /\ LET cs == outcome.value.competitors
                  n == Len(creators)
              IN  /\ Len(cs) = n
                  /\ \E p \in Orderings(n) : \A k \in 1..n :
                        LET m == cs[k].metrics
                            in == creators[p[k]]
                        IN  /\ cs[k].username = in.username
                            /\ m.followers = Literal(in.followers, 0)
                            /\ m.likes = Literal(in.likes, 0)
                            /\ m.videos = Literal(in.videos, 0)
                            /\ in.engagementRate = <<>> => m.engagementRate = 0
                            /\ in.accountAgeDays = <<>> => m.accountAgeDays = 365
           /\ Len(console) >= Cardinality({i \in 1..Len(creators) : HasNegativeCount(creators[i])})

C12_Witness ==
    /\ LandscapeReturned
    /\ Len(creators) = 2
    /\ creators[1].likes = <<-2>> /\ creators[1].videos = <<-3>>
    /\ creators[2].likes = <<>> /\ creators[2].videos = <<>>
    /\ outcome.value.competitors[1].metrics.likes = -2
    /\ outcome.value.competitors[1].metrics.videos = -3
    /\ outcome.value.competitors[2].metrics.likes = 0
    /\ Len(console) = 1

(* C13: the insights of a landscape result follow the fixed order           *)
(* market_dominance, challenger_rising, engagement_opportunity,            *)
(* growth_outlier, strategy_uniformity: each type at most once, none out   *)
(* of order, and none whose condition is false in the result.              *)

InsightOrder ==
    << "market_dominance", "challenger_rising", "engagement_opportunity",
       "growth_outlier", "strategy_uniformity" >>

InsightPosition(type) == CHOOSE k \in 1..Len(InsightOrder) : InsightOrder[k] = type

\* The condition of an insight type, read from the landscape result r.
InsightCondition(type, r) ==
    LET cs == r.competitors
        n == Len(cs)
        growthSum == Sum(Array([i \in 1..n |-> cs[i].growth.followersPerMonth]))
    IN  CASE type = "market_dominance" ->
                 /\ r.summary.totalFollowers > 0
                 /\ 2 * cs[1].metrics.followers > r.summary.totalFollowers
          [] type = "challenger_rising" ->
                 cs[2].growth.followersPerMonth > cs[1].growth.followersPerMonth
          [] type = "engagement_opportunity" ->
                 r.highlights.highestEngagement.username # cs[1].username
          [] type = "growth_outlier" ->
                 r.highlights.fastestGrowing.growthPerMonth * n > 2 * growthSum
          [] type = "strategy_uniformity" ->
                 \A i \in 1..n : cs[i].contentStrategy.postingStrategy
                                     = cs[1].contentStrategy.postingStrategy

C13_InsightsInFixedOrder ==
    LandscapeReturned =>
        LET ins == outcome.value.insights
        IN  /\ \A i \in 1..Len(ins) :
                  /\ \E k \in 1..Len(InsightOrder) : InsightOrder[k] = ins[i].type
                  /\ InsightCondition(ins[i].type, outcome.value)
            /\ \A i, j \in 1..Len(ins) :
                  i < j => InsightPosition(ins[i].type) < InsightPosition(ins[j].type)

C13_Witness ==
    /\ LandscapeReturned
    /\ Len(outcome.value.insights) = 3
    /\ outcome.value.insights[1].type = "market_dominance"
    /\ outcome.value.insights[2].type = "challenger_rising"
    /\ outcome.value.insights[3].type = "strategy_uniformity"

(* C14: with a positive follower total, the market_dominance insight is     *)
(* emitted exactly when the leader's followers exceed one half of the      *)
(* total, however small the excess.                                        *)

HasInsight(type) ==
    \E i \in 1..Len(outcome.value.insights) : outcome.value.insights[i].type = type

C14_DominanceIffMoreThanHalf ==
    (LandscapeReturned /\ outcome.value.summary.totalFollowers > 0)
        => (HasInsight("market_dominance")
              <=> 2 * outcome.value.competitors[1].metrics.followers
                    > outcome.value.summary.totalFollowers)

(* C15: highlights.fastestGrowing has the highest followersPerMonth and     *)
(* highlights.highestEngagement the highest rounded engagementRate; among  *)
(* several creators with the highest value the one of smallest follower    *)
(* rank is chosen, and rankings.byGrowth and rankings.byEngagement list    *)
(* creators of equal value in the order of their follower ranks.           *)

\* The follower rank of the first creator, in ranked order, whose value is highest.
FirstWithHighest(values) ==
    CHOOSE k \in 1..Len(values) :
        /\ \A i \in 1..Len(values) : values[i] <= values[k]
        /\ \A i \in 1..(k - 1) : values[i] < values[k]

\* view lists the creators cs by descending value, equal values by ascending
\* follower rank; entry i of view is <<username, value, rank>>.
IsStableDescendingView(view, cs, values) ==
    LET n == Len(cs)
    IN  /\ Len(view) = n
        /\ \E p \in Orderings(n) :
              /\ \A i \in 1..n : view[i] = <<cs[p[i]].username, values[p[i]], i>>
              /\ \A i, j \in 1..n :
                    i < j => \/ values[p[i]] > values[p[j]]
                             \/ values[p[i]] = values[p[j]] /\ p[i] < p[j]

C15_HighlightsPreferSmallestRank ==
    LandscapeReturned =>
        LET cs == outcome.value.competitors
            n == Len(cs)
            h == outcome.value.highlights
            r == outcome.value.rankings
            growth == Array([i \in 1..n |-> cs[i].growth.followersPerMonth])
            engagement == Array([i \in 1..n |-> cs[i].metrics.engagementRate])
        IN  /\ h.fastestGrowing.growthPerMonth = growth[FirstWithHighest(growth)]
            /\ h.fastestGrowing.username = cs[FirstWithHighest(growth)].username
            /\ h.highestEngagement.engagementRate = engagement[FirstWithHighest(engagement)]
            /\ h.highestEngagement.username = cs[FirstWithHighest(engagement)].username
            /\ IsStableDescendingView(
                   Array([i \in 1..Len(r.byGrowth) |->
                            <<r.byGrowth[i].username, r.byGrowth[i].growthPerMonth,
                              r.byGrowth[i].rank>>]),
                   cs, growth)
            /\ IsStableDescendingView(
                   Array([i \in 1..Len(r.byEngagement) |->
                            <<r.byEngagement[i].username, r.byEngagement[i].engagementRate,
                              r.byEngagement[i].rank>>]),
                   cs, engagement)

\* "b" (3000 followers in 150 days) is given before "a" (6000 in 300 days): both
\* grow by 600 a month, "a" has rank 1 and is the one chosen.
C15_Witness ==
    /\ LandscapeReturned
    /\ Len(creators) = 3
    /\ creators[1].username = "b" /\ creators[1].followers = <<3000>>
    /\ creators[1].accountAgeDays = <<150>>
    /\ creators[2].username = "a" /\ creators[2].followers = <<6000>>
    /\ creators[3].followers = <<593>>
    /\ outcome.value.highlights.fastestGrowing = [username |-> "a", growthPerMonth |-> 600]
    /\ outcome.value.rankings.byGrowth[2].username = "b"
    /\ outcome.value.rankings.byGrowth[3].growthPerMonth = 593

(* C16: when the target is not the leader, exactly one recommendation has   *)
(* the category Growth; with growthDelta the target's followersPerMonth    *)
(* minus the leader's, it is the low-priority "on track to overtake"       *)
(* action if growthDelta > 100 and the high-priority "increase growth      *)
(* rate" action otherwise, 0 < growthDelta <= 100 included; both carry a   *)
(* disclaimer.                                                             *)

\* The rank-1 profile: the first in [target, ...competitors] among those with
\* the highest follower count.
LeaderProfile ==
    LET all == <<target>> \o competitors
    IN  all[CHOOSE i \in 1..Len(all) :
                /\ FollowersOf(all[i]) = LeaderFollowers
                /\ \A j \in 1..(i - 1) : FollowersOf(all[j]) # LeaderFollowers]

\* The Growth recommendations of the result.
GrowthRecommendations ==
    SelectSeq(outcome.value.recommendations, LAMBDA r : r.category = "Growth")

\* target.growth.followersPerMonth - leader.growth.followersPerMonth
GrowthDelta ==
    outcome.value.target.growth.followersPerMonth - Growth(LeaderProfile).followersPerMonth

C16_OneGrowthRecommendation ==
    (BenchmarkReturned /\ ~outcome.value.isLeader)
        => /\ Len(GrowthRecommendations) = 1
           /\ LET g == GrowthRecommendations[1]
              IN  /\ "disclaimer" \in DOMAIN g
                  /\ IF GrowthDelta > 100
                       THEN g.priority = "low" /\ g.action = "on track to overtake leader"
                       ELSE g.priority = "high" /\ g.action = "increase growth rate"

\* The target gains 593 followers a month and the leader 493: a difference of
\* exactly 100.
C16_Witness ==
    /\ BenchmarkReturned /\ ~outcome.value.isLeader
    /\ GrowthDelta = 100
    /\ Len(GrowthRecommendations) = 1
    /\ GrowthRecommendations[1].priority = "high"

(* C17: in an "on track to overtake" recommendation the projected months    *)
(* are min(round(followerGap / growthDelta), 24), with followerGap the     *)
(* leader's followers minus the target's: an integer in 0..24, and the     *)
(* divisor is greater than 100.                                            *)

C17_MonthsToLeaderCapped ==
    (/\ BenchmarkReturned
     /\ \E i \in 1..Len(outcome.value.recommendations) :
           outcome.value.recommendations[i].action = "on track to overtake leader")
        => LET g == GrowthRecommendations[1]
               followerGap == LeaderFollowers - outcome.value.target.metrics.followers
               projected == (2 * followerGap + GrowthDelta) \div (2 * GrowthDelta)
           IN  /\ GrowthDelta > 100
               /\ g.monthsToLeader = IF projected < 24 THEN projected ELSE 24
               /\ g.monthsToLeader \in 0..24

\* A gap of 57000 followers closing by 107 a month: 533 months, reported as 24.
C17_Witness ==
    /\ BenchmarkReturned
    /\ Len(GrowthRecommendations) = 1
    /\ LeaderFollowers - outcome.value.target.metrics.followers = 57000
    /\ GrowthDelta = 107
    /\ GrowthRecommendations[1].priority = "low"
    /\ GrowthRecommendations[1].monthsToLeader = 24

(* C18: every benchmark result has exactly one recommendation of category   *)
(* Engagement; its priority is high if the target's engagementRate is      *)
(* strictly below the mean engagementRate of the competitors and low       *)
(* otherwise, the mean being taken over all of the competitors, of which   *)
(* there is at least one.                                                  *)

EngagementRecommendations ==
    SelectSeq(outcome.value.recommendations, LAMBDA r : r.category = "Engagement")

C18_EngagementAgainstCompetitorMean ==
    BenchmarkReturned =>
        LET n == Len(competitors)
            competitorSum == Sum(Array([i \in 1..n |-> RoundedEngagement(competitors[i])]))
            own == outcome.value.target.metrics.engagementRate
        IN  /\ n > 0
            /\ Len(EngagementRecommendations) = 1
            /\ EngagementRecommendations[1].priority
                  = IF own * n < competitorSum THEN "high" ELSE "low"

(* C19: the recommendations of a benchmark result follow the fixed order    *)
(* Engagement, Content Volume, Growth, Credibility: 1 to 4 entries, each   *)
(* category at most once, Engagement first; Credibility is present exactly *)
(* when the target is not verified and at least one competitor is          *)
(* verified, and is then last.                                             *)

CategoryOrder == <<"Engagement", "Content Volume", "Growth", "Credibility">>

CategoryPosition(category) == CHOOSE k \in 1..Len(CategoryOrder) : CategoryOrder[k] = category

C19_RecommendationsInFixedOrder ==
    BenchmarkReturned =>
        LET recs == outcome.value.recommendations
            n == Len(recs)
        IN  /\ n \in 1..4
            /\ \A i \in 1..n : \E k \in 1..Len(CategoryOrder) : CategoryOrder[k] = recs[i].category
            /\ \A i, j \in 1..n :
                  i < j => CategoryPosition(recs[i].category) < CategoryPosition(recs[j].category)
            /\ recs[1].category = "Engagement"
            /\ (\E i \in 1..n : recs[i].category = "Credibility")
                  <=> /\ ~target.verified
                      /\ \E i \in 1..Len(competitors) : competitors[i].verified
            /\ \A i \in 1..n : recs[i].category = "Credibility" => i = n

(* C20: analyzeCompetitiveLandscape and benchmarkCreator leave their        *)
(* arguments unchanged: after a call the input list has the same length    *)
(* and order as before, and no field of an input profile, rank included,   *)
(* has been added or modified.                                             *)

C20_ArgumentsUnchanged ==
    /\ (pc = "done" /\ op = "analyzeCompetitiveLandscape")
          => /\ Len(after.creators) = Len(creators)
             /\ \A i \in 1..Len(creators) :
                   /\ DOMAIN after.creators[i] = DOMAIN creators[i]
                   /\ after.creators[i] = creators[i]
    /\ BenchmarkCalled
          => /\ after.target = target
             /\ "rank" \notin DOMAIN after.target
             /\ Len(after.competitors) = Len(competitors)
             /\ \A i \in 1..Len(competitors) :
                   /\ DOMAIN after.competitors[i] = DOMAIN competitors[i]
                   /\ after.competitors[i] = competitors[i]

\* The profile given last has the most followers and is ranked first; the
\* argument still has it last.
C20_Witness ==
    /\ LandscapeReturned
    /\ Len(creators) = 3
    /\ FollowersOf(creators[3]) > FollowersOf(creators[1])
    /\ FollowersOf(creators[1]) > FollowersOf(creators[2])
    /\ outcome.value.competitors[1].username = creators[3].username
    /\ outcome.value.competitors[1].rank = 1
    /\ after.creators = creators

(* C21: when the target's followers equal the highest follower count among  *)
(* the competitors and no competitor has the target's username, the target *)
(* is ranked 1 and is the leader: benchmarks.followers.rank = 1, isLeader  *)
(* is true and gapToLeader is null.                                        *)

TargetTiesForFirst ==
    /\ target # Undefined
    /\ Len(competitors) > 0
    /\ \A i \in 1..Len(competitors) :
          /\ FollowersOf(competitors[i]) <= FollowersOf(target)
          /\ competitors[i].username # target.username
    /\ \E i \in 1..Len(competitors) : FollowersOf(competitors[i]) = FollowersOf(target)

C21_TieForFirstGoesToTarget ==
    (BenchmarkReturned /\ TargetTiesForFirst)
        => /\ outcome.value.benchmarks.followers.rank = 1
           /\ outcome.value.isLeader
           /\ outcome.value.gapToLeader = Null

C21_Witness ==
    /\ BenchmarkReturned /\ TargetTiesForFirst
    /\ Len(competitors) = 2
    /\ FollowersOf(competitors[1]) < FollowersOf(target)
    /\ FollowersOf(competitors[2]) = FollowersOf(target)
    /\ outcome.value.target.username = target.username
    /\ outcome.value.benchmarks.followers.rank = 1
    /\ outcome.value.isLeader

(* C22: for every target and non-empty competitor list, a competitor with   *)
(* the target's username included, the target section of the result       *)
(* describes the target profile itself: target.metrics.followers is the    *)
(* target's own followers (0 if absent), benchmarks.followers.rank is the  *)
(* rank of the target's own entry, and the competitor-only set given to    *)
(* the recommendation rules has as many entries as there are competitors.  *)

\* The rank of the target's own entry: it is given first, so it follows
\* exactly the competitors with more followers.
OwnRank ==
    1 + Cardinality({i \in 1..Len(competitors) :
                        FollowersOf(competitors[i]) > FollowersOf(target)})

\* The competitor-only analyses the call hands to the recommendation rules.
CompetitorOnlySet ==
    SelectSeq(LandscapeResult(<<target>> \o competitors).competitors,
              LAMBDA c : ~SameUsername(c, target))

C22_TargetSectionIsTheTarget ==
    BenchmarkReturned =>
        /\ outcome.value.target.metrics.followers = FollowersOf(target)
        /\ outcome.value.benchmarks.followers.rank = OwnRank
        /\ Len(CompetitorOnlySet) = Len(competitors)

====
